---- MODULE Spec2Model ----
(***************************************************************************)
(* Movie playlist backend (Django + Django REST framework).                *)
(*                                                                         *)
(* The data store holds three tables: Movie, Playlist and PlaylistItem.    *)
(* Request handlers run concurrently, one per process of Procs.  No        *)
(* transaction spans two statements of a handler (autocommit), so every    *)
(* write of a handler is a step of its own.  The reads a handler makes     *)
(* before its write are taken together with its validation as one step:    *)
(* any process may begin any request at any time, so the stored rows a     *)
(* handler can meet at its write are the same.  The resolution service     *)
(* keeps its lookup, its fetch and its insert apart.  A finished handler   *)
(* holds its response until the process answers and becomes idle again.    *)
(* Model.save() is Django's: UPDATE by primary key and, when no row was    *)
(* updated, INSERT.  Model.delete() collects and deletes the cascade in    *)
(* one transaction, so a delete with its cascade is one step.              *)
(***************************************************************************)
EXTENDS Integers, FiniteSets, Sequences, TLC

\* ---------------------------------------------------------------- bounds
NumProcs == 2
MaxMovies == 2
MaxPlaylists == 2
MaxItems == 2
MaxTmdbId == 1
MaxDateLen == 3
MaxVideos == 2

Procs == 1..NumProcs
MovieIds == 1..MaxMovies
PlaylistIds == 1..MaxPlaylists
ItemIds == 1..MaxItems
TmdbIds == 1..MaxTmdbId

\* ------------------------------------------------------------- constants
NULL == 0
INVALID_INT == -1
ABSENT == "<absent>"
TO_WATCH == "to_watch"
WATCHING == "watching"
WATCHED == "watched"
Status == {TO_WATCH, WATCHING, WATCHED}
\* the status field of a request body: a choice, a value that is no choice,
\* or no status field at all
StatusInputs == Status \cup {"bogus", ABSENT}

HTTP_200_OK == 200
HTTP_201_CREATED == 201
HTTP_204_NO_CONTENT == 204
HTTP_400_BAD_REQUEST == 400
HTTP_404_NOT_FOUND == 404
HTTP_500_SERVER_ERROR == 500
\* no HTTP status: of a call that is no endpoint, or that sent no request
NO_CODE == 0

\* the statuses the TMDB detail endpoint answers with
TmdbHttpStatuses == {HTTP_200_OK, HTTP_404_NOT_FOUND, HTTP_500_SERVER_ERROR}

\* ---------------------------------------- the values of a JSON document
\* a value as Python holds it: None, a str (its characters) or an int; a
\* JSON object is a function on its keys, a JSON list is a sequence
None == [type |-> "null"]
str(chars) == [type |-> "str", chars |-> chars]
PyInt(n) == [type |-> "int", value |-> n]
ValueError == [type |-> "exception", name |-> "ValueError"]
AttributeError == [type |-> "exception", name |-> "AttributeError"]
EmptyDict == <<>>

\* d.get(key, default)
get(d, key, default) == IF key \in DOMAIN d THEN d[key] ELSE default

\* the truth value of None or of a str
Truthy(v) == v.type = "str" /\ v.chars # <<>>

UPPERCASE ==
    <<"A", "B", "C", "D", "E", "F", "G", "H", "I", "J", "K", "L", "M",
      "N", "O", "P", "Q", "R", "S", "T", "U", "V", "W", "X", "Y", "Z">>
LOWERCASE ==
    <<"a", "b", "c", "d", "e", "f", "g", "h", "i", "j", "k", "l", "m",
      "n", "o", "p", "q", "r", "s", "t", "u", "v", "w", "x", "y", "z">>
DIGITS == <<"0", "1", "2", "3", "4", "5", "6", "7", "8", "9">>

\* str.lower(), character by character
lower(chars) ==
    [i \in 1..Len(chars) |->
        IF \E k \in 1..Len(UPPERCASE) : UPPERCASE[k] = chars[i]
        THEN LOWERCASE[CHOOSE k \in 1..Len(UPPERCASE) : UPPERCASE[k] = chars[i]]
        ELSE chars[i]]

\* str.split("-")[0]: the characters before the first "-", all of them when
\* there is none
split_first(chars) ==
    LET dashes == {i \in 1..Len(chars) : chars[i] = "-"}
        first == IF dashes = {} THEN Len(chars) + 1
                 ELSE CHOOSE i \in dashes : \A j \in dashes : i <= j
    IN  SubSeq(chars, 1, first - 1)

\* str.strip() of the blanks int() ignores at both ends
strip(chars) ==
    LET inked == {i \in 1..Len(chars) : chars[i] # " "}
    IN  IF inked = {} THEN <<>>
        ELSE SubSeq(chars, CHOOSE i \in inked : \A j \in inked : i <= j,
                           CHOOSE i \in inked : \A j \in inked : j <= i)

IsDigit(c) == \E k \in 1..Len(DIGITS) : DIGITS[k] = c
DigitValue(c) == (CHOOSE k \in 1..Len(DIGITS) : DIGITS[k] = c) - 1

\* the value of decimal digits with "_" between them
RECURSIVE DecimalValue(_)
DecimalValue(chars) ==
    IF chars = <<>> THEN 0
    ELSE LET n == Len(chars)
             most == DecimalValue(SubSeq(chars, 1, n - 1))
         IN  IF chars[n] = "_" THEN most ELSE 10 * most + DigitValue(chars[n])

\* int(text): blanks around, an optional sign, then decimal digits with
\* single underscores between digits; anything else raises ValueError
int(chars) ==
    LET text == strip(chars)
        signed == text # <<>> /\ text[1] \in {"+", "-"}
        body == IF signed THEN Tail(text) ELSE text
        wellFormed ==
            /\ body # <<>>
            /\ \A i \in 1..Len(body) :
                  \/ IsDigit(body[i])
                  \/ /\ body[i] = "_"
                     /\ 1 < i /\ i < Len(body)
                     /\ IsDigit(body[i - 1]) /\ IsDigit(body[i + 1])
    IN  IF ~wellFormed THEN ValueError
        ELSE IF signed /\ text[1] = "-" THEN PyInt(0 - DecimalValue(body))
        ELSE PyInt(DecimalValue(body))

YOUTUBE == <<"y", "o", "u", "t", "u", "b", "e">>

\* "2010-07-15"
EXAMPLE_DATE == <<"2", "0", "1", "0", "-", "0", "7", "-", "1", "5">>

\* a detail document with a release date and an empty video list
InceptionDoc == [release_date |-> str(EXAMPLE_DATE), videos |-> [results |-> <<>>]]

VARIABLES
    movies,         \* Movie rows: [id, tmdb_id]
    playlists,      \* Playlist rows: the set of their ids
    items,          \* PlaylistItem rows: [id, playlist, movie, status]
    nextMovieId,    \* autoincrement primary keys
    nextPlaylistId,
    nextItemId,
    apiKey,         \* TRUE iff TMDB_API_KEY is configured
    data,           \* the detail document TMDB answers a successful fetch with
    req             \* per process: the request being handled, or its response

store == <<movies, playlists, items>>
seqs == <<nextMovieId, nextPlaylistId, nextItemId>>
vars ==
    <<movies, playlists, items, nextMovieId, nextPlaylistId, nextItemId, apiKey, data, req>>

\* ------------------------------------------------------- process records
NoObj == [id |-> NULL, playlist |-> NULL, movie |-> NULL, status |-> ""]

Idle ==
    [op |-> "none", pc |-> "idle", pl |-> NULL, mv |-> NULL, st |-> "", tm |-> NULL,
     obj |-> NoObj, code |-> NO_CODE, detail |-> "", created |-> FALSE, fetches |-> 0,
     release_year |-> None, youtube_id |-> None]

\* a handler in flight at step pc
At(op, pc, pl, mv, st, tm, obj) ==
    [Idle EXCEPT !.op = op, !.pc = pc, !.pl = pl, !.mv = mv, !.st = st, !.tm = tm,
                 !.obj = obj]

\* a finished handler: the HTTP response (or the raised exception)
Done(op, code, detail) ==
    [Idle EXCEPT !.op = op, !.pc = "done", !.code = code, !.detail = detail]

\* a process takes a new request when it is idle
Begin(p) == req[p].pc = "idle"

Reply(p, r) == req' = [req EXCEPT ![p] = r]

\* ------------------------------------------------------ storage: queries
MoviePks == {m.id : m \in movies}

\* Playlist.items (related_name of PlaylistItem.playlist)
PlaylistItems(pl) == {i \in items : i.playlist = pl}

\* Playlist.movie_count
movie_count(pl) == Cardinality(PlaylistItems(pl))

\* Playlist.watched_count
watched_count(pl) == Cardinality({i \in PlaylistItems(pl) : i.status = WATCHED})

\* get_progress counting over all items instead of self.items
get_progress_all(pl) ==
    <<Cardinality({i \in items : i.status = WATCHED}), Cardinality(items)>>

\* Playlist.get_progress: (watched, total)
get_progress(pl) ==
    LET total == Cardinality(PlaylistItems(pl))
        watched == Cardinality({i \in PlaylistItems(pl) : i.status = WATCHED})
    IN  <<watched, total>>

\* the lookup without the local cache: it never matches
MoviesByTmdb_miss(tm) == {}

\* Movie.objects.get(tmdb_id=tmdb_id): the rows it matches
MoviesByTmdb(tm) == {m \in movies : m.tmdb_id = tm}

\* PlaylistItem.objects.filter(playlist=..., movie=...)
ItemsOfPair(pl, mv) == {i \in items : i.playlist = pl /\ i.movie = mv}

\* --------------------------------------------------- storage: constraints
\* the table without unique_together
UniqueTogetherOK_unenforced(row) == TRUE

\* unique_together = ("playlist", "movie"), for a row written under key row.id
UniqueTogetherOK(row) ==
    \A i \in items : i.id # row.id => ~(i.playlist = row.playlist /\ i.movie = row.movie)

\* the foreign keys with a nullable playlist
ForeignKeysOK_nullable(row) ==
    /\ row.playlist = NULL \/ row.playlist \in playlists
    /\ row.movie # NULL /\ row.movie \in MoviePks

\* the two foreign keys of PlaylistItem (NOT NULL, referencing existing rows)
ForeignKeysOK(row) ==
    /\ row.playlist # NULL /\ row.playlist \in playlists
    /\ row.movie # NULL /\ row.movie \in MoviePks

\* tmdb_id without unique=True
TmdbUniqueOK_unenforced(row) == TRUE

\* Movie.tmdb_id: unique when not NULL, for a row written under key row.id
TmdbUniqueOK(row) ==
    row.tmdb_id = NULL \/ \A m \in movies : m.id # row.id => m.tmdb_id # row.tmdb_id

\* the write of a PlaylistItem row is accepted by the database
ItemWriteOK(row) == ForeignKeysOK(row) /\ UniqueTogetherOK(row)

\* the table after a Model.save()/create() of row: UPDATE by pk, else INSERT
SaveItem(row) == {i \in items : i.id # row.id} \cup {row}

SaveMovie(row) == {m \in movies : m.id # row.id} \cup {row}

\* the playlist key without on_delete=CASCADE
CascadePlaylist_none(pl) == items

\* on_delete=CASCADE
CascadePlaylist(pl) == {i \in items : i.playlist # pl}

CascadeMovie(mv) == {i \in items : i.movie # mv}

\* ------------------------------------------------------------ serializers
\* the serializer with a free-text status
AddMovieValid_idonly(movie_id, st) == movie_id # INVALID_INT

\* AddMovieToPlaylistSerializer.is_valid
AddMovieValid(movie_id, st) == movie_id # INVALID_INT /\ st \in Status \cup {ABSENT}

\* AddMovieToPlaylistSerializer.validated_data["status"]
AddMovieStatus(st) == IF st = ABSENT THEN TO_WATCH ELSE st

\* the serializer with a free-text status
UpdateStatusValid_text(st) == st # ABSENT

\* UpdatePlaylistItemStatusSerializer.is_valid
UpdateStatusValid(st) == st \in Status

Init ==
    /\ movies = {}
    /\ playlists = {}
    /\ items = {}
    /\ nextMovieId = 1
    /\ nextPlaylistId = 1
    /\ nextItemId = 1
    /\ apiKey \in BOOLEAN
    /\ data = InceptionDoc
    /\ req = [p \in Procs |-> Idle]

\* the response is sent (or the exception has propagated): the process is
\* free for the next request
Respond(p) ==
    /\ req[p].pc = "done"
    /\ Reply(p, Idle)
    /\ UNCHANGED <<store, seqs, apiKey, data>>

\* ------------------------------------------------------- PlaylistViewSet
\* POST /api/playlists/
PlaylistCreate(p) ==
    /\ Begin(p)
    /\ nextPlaylistId <= MaxPlaylists
    /\ playlists' = playlists \cup {nextPlaylistId}
    /\ nextPlaylistId' = nextPlaylistId + 1
    /\ Reply(p, Done("playlist_create", HTTP_201_CREATED, ""))
    /\ UNCHANGED <<movies, items, nextMovieId, nextItemId, apiKey, data>>

\* DELETE /api/playlists/{id}/
PlaylistDestroy(p) ==
    /\ Begin(p)
    /\ \E pl \in PlaylistIds :
        IF pl \in playlists
        THEN /\ playlists' = playlists \ {pl}
             /\ items' = CascadePlaylist(pl)
             /\ Reply(p, Done("playlist_destroy", HTTP_204_NO_CONTENT, ""))
        ELSE /\ Reply(p, Done("playlist_destroy", HTTP_404_NOT_FOUND, "Http404"))
             /\ UNCHANGED <<playlists, items>>
    /\ UNCHANGED <<movies, seqs, apiKey, data>>

\* POST /api/playlists/{id}/add_movie/: get_object, is_valid,
\* get_object_or_404(Movie), and the check "already in playlist"
\* add_movie without the check "already in playlist"
add_movie_check_noexists(pl, movie_id, st) ==
    IF pl \notin playlists
    THEN Done("add_movie", HTTP_404_NOT_FOUND, "Http404")
    ELSE IF ~AddMovieValid(movie_id, st)
    THEN Done("add_movie", HTTP_400_BAD_REQUEST, "ValidationError")
    ELSE IF movie_id \notin MoviePks
    THEN Done("add_movie", HTTP_404_NOT_FOUND, "Http404")
    ELSE At("add_movie", "am_create", pl, movie_id, AddMovieStatus(st), NULL, NoObj)

add_movie_check(pl, movie_id, st) ==
    IF pl \notin playlists
    THEN Done("add_movie", HTTP_404_NOT_FOUND, "Http404")
    ELSE IF ~AddMovieValid(movie_id, st)
    THEN Done("add_movie", HTTP_400_BAD_REQUEST, "ValidationError")
    ELSE IF movie_id \notin MoviePks
    THEN Done("add_movie", HTTP_404_NOT_FOUND, "Http404")
    ELSE IF ItemsOfPair(pl, movie_id) # {}
    THEN Done("add_movie", HTTP_400_BAD_REQUEST, "Movie already in playlist")
    ELSE At("add_movie", "am_create", pl, movie_id, AddMovieStatus(st), NULL, NoObj)

AddMovieCheck(p) ==
    /\ Begin(p)
    /\ \E pl \in PlaylistIds, movie_id \in MovieIds \cup {INVALID_INT}, st \in StatusInputs :
        Reply(p, add_movie_check(pl, movie_id, st))
    /\ UNCHANGED <<store, seqs, apiKey, data>>

\* item = PlaylistItem.objects.create(playlist, movie, status)
AddMovieCreate(p) ==
    /\ req[p].pc = "am_create"
    /\ nextItemId <= MaxItems
    /\ LET row == [id |-> nextItemId, playlist |-> req[p].pl, movie |-> req[p].mv,
                   status |-> req[p].st]
       IN  IF ItemWriteOK(row)
           THEN /\ items' = SaveItem(row)
                /\ nextItemId' = nextItemId + 1
                /\ Reply(p, Done("add_movie", HTTP_201_CREATED, ""))
           ELSE /\ Reply(p, Done("add_movie", HTTP_500_SERVER_ERROR, "IntegrityError"))
                /\ UNCHANGED <<items, nextItemId>>
    /\ UNCHANGED <<movies, playlists, nextMovieId, nextPlaylistId, apiKey, data>>

\* DELETE /api/playlists/{id}/remove_movie/{movie_id}/: get_object and
\* item = get_object_or_404(PlaylistItem, playlist=playlist, movie_id=movie_id)
remove_movie_lookup(pl, movie_id) ==
    LET found == ItemsOfPair(pl, movie_id)
    IN  IF pl \notin playlists \/ found = {}
        THEN Done("remove_movie", HTTP_404_NOT_FOUND, "Http404")
        ELSE At("remove_movie", "rm_delete", NULL, NULL, "", NULL,
                [NoObj EXCEPT !.id = (CHOOSE i \in found : TRUE).id])

RemoveMovieLookup(p) ==
    /\ Begin(p)
    /\ \E pl \in PlaylistIds, movie_id \in MovieIds :
        Reply(p, remove_movie_lookup(pl, movie_id))
    /\ UNCHANGED <<store, seqs, apiKey, data>>

\* item.delete()
RemoveMovieDelete(p) ==
    /\ req[p].pc = "rm_delete"
    /\ items' = {i \in items : i.id # req[p].obj.id}
    /\ Reply(p, Done("remove_movie", HTTP_204_NO_CONTENT, ""))
    /\ UNCHANGED <<movies, playlists, seqs, apiKey, data>>

\* PATCH /api/playlists/{id}/update_item_status/{movie_id}/: get_object,
\* item = get_object_or_404(...), is_valid, item.status = validated status
update_item_status_lookup(pl, movie_id, st) ==
    LET found == ItemsOfPair(pl, movie_id)
    IN  IF pl \notin playlists \/ found = {}
        THEN Done("update_item_status", HTTP_404_NOT_FOUND, "Http404")
        ELSE IF ~UpdateStatusValid(st)
        THEN Done("update_item_status", HTTP_400_BAD_REQUEST, "ValidationError")
        ELSE At("update_item_status", "us_save", NULL, NULL, "", NULL,
                [(CHOOSE i \in found : TRUE) EXCEPT !.status = st])

UpdateItemStatusLookup(p) ==
    /\ Begin(p)
    /\ \E pl \in PlaylistIds, movie_id \in MovieIds, st \in StatusInputs :
        Reply(p, update_item_status_lookup(pl, movie_id, st))
    /\ UNCHANGED <<store, seqs, apiKey, data>>

\* item.save()
UpdateItemStatusSave(p) ==
    /\ req[p].pc = "us_save"
    /\ IF ItemWriteOK(req[p].obj)
       THEN /\ items' = SaveItem(req[p].obj)
            /\ Reply(p, Done("update_item_status", HTTP_200_OK, ""))
       ELSE /\ Reply(p, Done("update_item_status", HTTP_500_SERVER_ERROR, "IntegrityError"))
            /\ UNCHANGED items
    /\ UNCHANGED <<movies, playlists, seqs, apiKey, data>>

\* PUT /api/playlists/{id}/: get_object
PlaylistUpdateGet(p) ==
    /\ Begin(p)
    /\ \E pl \in PlaylistIds :
        Reply(p, IF pl \notin playlists
                 THEN Done("playlist_update", HTTP_404_NOT_FOUND, "Http404")
                 ELSE At("playlist_update", "pu_save", pl, NULL, "", NULL, NoObj))
    /\ UNCHANGED <<store, seqs, apiKey, data>>

\* serializer.save(): instance.save()
PlaylistUpdateSave(p) ==
    /\ req[p].pc = "pu_save"
    /\ playlists' = playlists \cup {req[p].pl}
    /\ Reply(p, Done("playlist_update", HTTP_200_OK, ""))
    /\ UNCHANGED <<movies, items, seqs, apiKey, data>>

\* ---------------------------------------------------------- MovieViewSet
\* POST /api/movies/: is_valid (UniqueValidator of tmdb_id)
MovieCreateValidate(p) ==
    /\ Begin(p)
    /\ \E tm \in TmdbIds \cup {NULL} :
        Reply(p, IF tm # NULL /\ \E m \in movies : m.tmdb_id = tm
                 THEN Done("movie_create", HTTP_400_BAD_REQUEST, "ValidationError")
                 ELSE At("movie_create", "mc_insert", NULL, NULL, "", tm, NoObj))
    /\ UNCHANGED <<store, seqs, apiKey, data>>

\* serializer.save(): Movie.objects.create(...)
MovieCreateInsert(p) ==
    /\ req[p].pc = "mc_insert"
    /\ nextMovieId <= MaxMovies
    /\ LET row == [id |-> nextMovieId, tmdb_id |-> req[p].tm]
       IN  IF TmdbUniqueOK(row)
           THEN /\ movies' = SaveMovie(row)
                /\ nextMovieId' = nextMovieId + 1
                /\ Reply(p, Done("movie_create", HTTP_201_CREATED, ""))
           ELSE /\ Reply(p, Done("movie_create", HTTP_500_SERVER_ERROR, "IntegrityError"))
                /\ UNCHANGED <<movies, nextMovieId>>
    /\ UNCHANGED <<playlists, items, nextPlaylistId, nextItemId, apiKey, data>>

\* PUT /api/movies/{id}/: get_object
MovieUpdateGet(p) ==
    /\ Begin(p)
    /\ \E mv \in MovieIds, tm \in TmdbIds \cup {NULL} :
        Reply(p, IF mv \notin MoviePks
                 THEN Done("movie_update", HTTP_404_NOT_FOUND, "Http404")
                 ELSE At("movie_update", "mu_validate", NULL, mv, "", tm, NoObj))
    /\ UNCHANGED <<store, seqs, apiKey, data>>

\* is_valid (UniqueValidator of tmdb_id, excluding the instance)
MovieUpdateValidate(p) ==
    /\ req[p].pc = "mu_validate"
    /\ Reply(p, IF req[p].tm # NULL
                   /\ \E m \in movies : m.id # req[p].mv /\ m.tmdb_id = req[p].tm
                THEN Done("movie_update", HTTP_400_BAD_REQUEST, "ValidationError")
                ELSE [req[p] EXCEPT !.pc = "mu_save"])
    /\ UNCHANGED <<store, seqs, apiKey, data>>

\* serializer.save(): instance.save()
MovieUpdateSave(p) ==
    /\ req[p].pc = "mu_save"
    /\ LET row == [id |-> req[p].mv, tmdb_id |-> req[p].tm]
       IN  IF TmdbUniqueOK(row)
           THEN /\ movies' = SaveMovie(row)
                /\ Reply(p, Done("movie_update", HTTP_200_OK, ""))
           ELSE /\ Reply(p, Done("movie_update", HTTP_500_SERVER_ERROR, "IntegrityError"))
                /\ UNCHANGED movies
    /\ UNCHANGED <<playlists, items, seqs, apiKey, data>>

\* DELETE /api/movies/{id}/
MovieDestroy(p) ==
    /\ Begin(p)
    /\ \E mv \in MovieIds :
        IF mv \in MoviePks
        THEN /\ movies' = {m \in movies : m.id # mv}
             /\ items' = CascadeMovie(mv)
             /\ Reply(p, Done("movie_destroy", HTTP_204_NO_CONTENT, ""))
        ELSE /\ Reply(p, Done("movie_destroy", HTTP_404_NOT_FOUND, "Http404"))
             /\ UNCHANGED <<movies, items>>
    /\ UNCHANGED <<playlists, seqs, apiKey, data>>

\* --------------------------------------------------- PlaylistItemViewSet
\* POST /api/playlist-items/: is_valid, then PlaylistItem.objects.create
\* of the serializer's fields, which do not include the playlist
ItemCreate(p) ==
    /\ Begin(p)
    /\ nextItemId <= MaxItems
    /\ \E movie_id \in MovieIds, st \in StatusInputs :
        LET row == [id |-> nextItemId, playlist |-> NULL, movie |-> movie_id,
                    status |-> AddMovieStatus(st)]
        IN  IF movie_id \notin MoviePks \/ st \notin Status \cup {ABSENT}
            THEN /\ Reply(p, Done("item_create", HTTP_400_BAD_REQUEST, "ValidationError"))
                 /\ UNCHANGED <<items, nextItemId>>
            ELSE IF ItemWriteOK(row)
            THEN /\ items' = SaveItem(row)
                 /\ nextItemId' = nextItemId + 1
                 /\ Reply(p, Done("item_create", HTTP_201_CREATED, ""))
            ELSE /\ Reply(p, Done("item_create", HTTP_500_SERVER_ERROR, "IntegrityError"))
                 /\ UNCHANGED <<items, nextItemId>>
    /\ UNCHANGED <<movies, playlists, nextMovieId, nextPlaylistId, apiKey, data>>

\* PATCH /api/playlist-items/{id}/: get_object, then is_valid (movie_id is a
\* PrimaryKeyRelatedField over Movie.objects.all(), status a choice; both optional)
ItemUpdateGet(p) ==
    /\ Begin(p)
    /\ \E id \in ItemIds, movie_id \in MovieIds \cup {NULL}, st \in StatusInputs :
        LET found == {i \in items : i.id = id}
            obj == CHOOSE i \in found : TRUE
        IN  Reply(p, IF found = {}
                     THEN Done("item_update", HTTP_404_NOT_FOUND, "Http404")
                     ELSE IF st \notin Status \cup {ABSENT}
                             \/ (movie_id # NULL /\ movie_id \notin MoviePks)
                     THEN Done("item_update", HTTP_400_BAD_REQUEST, "ValidationError")
                     ELSE At("item_update", "iu_save", NULL, NULL, "", NULL,
                             [obj EXCEPT !.status = IF st = ABSENT THEN @ ELSE st,
                                         !.movie = IF movie_id = NULL THEN @ ELSE movie_id]))
    /\ UNCHANGED <<store, seqs, apiKey, data>>

\* serializer.save(): instance.save()
ItemUpdateSave(p) ==
    /\ req[p].pc = "iu_save"
    /\ IF ItemWriteOK(req[p].obj)
       THEN /\ items' = SaveItem(req[p].obj)
            /\ Reply(p, Done("item_update", HTTP_200_OK, ""))
       ELSE /\ Reply(p, Done("item_update", HTTP_500_SERVER_ERROR, "IntegrityError"))
            /\ UNCHANGED items
    /\ UNCHANGED <<movies, playlists, seqs, apiKey, data>>

\* DELETE /api/playlist-items/{id}/
ItemDestroy(p) ==
    /\ Begin(p)
    /\ \E id \in ItemIds :
        LET found == {i \in items : i.id = id}
        IN  IF found # {}
            THEN /\ items' = items \ found
                 /\ Reply(p, Done("item_destroy", HTTP_204_NO_CONTENT, ""))
            ELSE /\ Reply(p, Done("item_destroy", HTTP_404_NOT_FOUND, "Http404"))
                 /\ UNCHANGED items
    /\ UNCHANGED <<movies, playlists, seqs, apiKey, data>>

\* ------------------------------------------ get_or_create_movie_from_tmdb
\* the fetch without the 404 test and without raise_for_status
get_tmdb_movie_details_unchecked(hasKey, status) ==
    IF ~hasKey THEN "ImproperlyConfigured" ELSE ""

\* get_tmdb_movie_details(tmdb_id): the exception raised, "" when it returns
get_tmdb_movie_details(hasKey, status) ==
    IF ~hasKey THEN "ImproperlyConfigured"
    ELSE IF status = HTTP_404_NOT_FOUND THEN "TMDBError"
    ELSE IF status # HTTP_200_OK THEN "HTTPError"
    ELSE ""

\* movie = Movie.objects.get(tmdb_id=tmdb_id); return movie, False
resolve_lookup(tm) ==
    LET found == MoviesByTmdb(tm)
    IN  IF found # {}
        THEN [Done("resolve", NO_CODE, "returned")
                 EXCEPT !.tm = tm, !.mv = (CHOOSE m \in found : TRUE).id]
        ELSE At("resolve", "rs_fetch", NULL, NULL, "", tm, NoObj)

ResolveLookup(p) ==
    /\ Begin(p)
    /\ \E tm \in TmdbIds : Reply(p, resolve_lookup(tm))
    /\ UNCHANGED <<store, seqs, apiKey, data>>

\* data = get_tmdb_movie_details(tmdb_id)
ResolveFetch(p) ==
    /\ req[p].pc = "rs_fetch"
    /\ \E status \in TmdbHttpStatuses :
        LET exc == get_tmdb_movie_details(apiKey, status)
            sent == IF apiKey THEN 1 ELSE 0
            code == IF apiKey THEN status ELSE NO_CODE
        IN  Reply(p, IF exc # ""
                     THEN [Done("resolve", code, exc)
                              EXCEPT !.tm = req[p].tm, !.fetches = sent]
                     ELSE [req[p] EXCEPT !.pc = "rs_create", !.code = code, !.fetches = sent])
    /\ UNCHANGED <<store, seqs, apiKey, data>>

\* the loop over the rest of the video list that takes every youtube entry,
\* whatever its key
RECURSIVE youtube_scan_anykey(_)
youtube_scan_anykey(videos) ==
    IF videos = <<>> THEN None
    ELSE LET v == Head(videos)
             site == get(v, "site", str(<<>>))
         IN  IF site.type # "str" THEN AttributeError
             ELSE IF lower(site.chars) = YOUTUBE THEN get(v, "key", None)
             ELSE youtube_scan_anykey(Tail(videos))

\* for v in videos: if v.get("site", "").lower() == "youtube" and
\* v.get("key"): youtube_id = v.get("key"); break
\* the youtube_id after the loop over (the rest of) the list; .lower() of a
\* site that is None raises AttributeError
RECURSIVE youtube_scan(_)
youtube_scan(videos) ==
    IF videos = <<>> THEN None
    ELSE LET v == Head(videos)
             site == get(v, "site", str(<<>>))
         IN  IF site.type # "str" THEN AttributeError
             ELSE IF lower(site.chars) = YOUTUBE /\ Truthy(get(v, "key", None))
                  THEN get(v, "key", None)
             ELSE youtube_scan(Tail(videos))

\* videos = data.get("videos", {}).get("results", []), then the loop
extract_youtube_id(doc) ==
    youtube_scan(get(get(doc, "videos", EmptyDict), "results", <<>>))

\* the release year parsed from the whole date, without the split
parse_release_year_nosplit(doc) ==
    LET given == get(doc, "release_date", None)
        release_date == IF Truthy(given) THEN given.chars ELSE <<>>
    IN  IF release_date = <<>> THEN None
        ELSE IF int(release_date) = ValueError THEN None
        ELSE int(release_date)

\* release_date = data.get("release_date") or ""; if release_date: try:
\* release_year = int(release_date.split("-")[0]) except ValueError: None
parse_release_year(doc) ==
    LET given == get(doc, "release_date", None)
        release_date == IF Truthy(given) THEN given.chars ELSE <<>>
    IN  IF release_date = <<>> THEN None
        ELSE IF int(split_first(release_date)) = ValueError THEN None
        ELSE int(split_first(release_date))

\* the fields are taken from the document, then
\* movie = Movie.objects.create(tmdb_id=tmdb_id, ...); return movie, True
ResolveCreate(p) ==
    /\ req[p].pc = "rs_create"
    /\ nextMovieId <= MaxMovies
    /\ LET row == [id |-> nextMovieId, tmdb_id |-> req[p].tm]
           youtube_id == extract_youtube_id(data)
           release_year == parse_release_year(data)
       IN  IF youtube_id = AttributeError
           THEN /\ Reply(p, [Done("resolve", NO_CODE, "AttributeError")
                                EXCEPT !.tm = req[p].tm, !.fetches = req[p].fetches])
                /\ UNCHANGED <<movies, nextMovieId>>
           ELSE IF TmdbUniqueOK(row)
           THEN /\ movies' = SaveMovie(row)
                /\ nextMovieId' = nextMovieId + 1
                /\ Reply(p, [Done("resolve", NO_CODE, "returned")
                                EXCEPT !.tm = req[p].tm, !.mv = row.id, !.created = TRUE,
                                       !.fetches = req[p].fetches,
                                       !.release_year = release_year,
                                       !.youtube_id = youtube_id])
           ELSE /\ Reply(p, [Done("resolve", NO_CODE, "IntegrityError")
                                EXCEPT !.tm = req[p].tm, !.fetches = req[p].fetches])
                /\ UNCHANGED <<movies, nextMovieId>>
    /\ UNCHANGED <<playlists, items, nextPlaylistId, nextItemId, apiKey, data>>

\* the handlers by view set
PlaylistOps(p) ==
    \/ PlaylistCreate(p)
    \/ PlaylistDestroy(p)
    \/ PlaylistUpdateGet(p)
    \/ PlaylistUpdateSave(p)
    \/ AddMovieCheck(p)
    \/ AddMovieCreate(p)
    \/ RemoveMovieLookup(p)
    \/ RemoveMovieDelete(p)
    \/ UpdateItemStatusLookup(p)
    \/ UpdateItemStatusSave(p)

ItemOps(p) ==
    \/ ItemCreate(p)
    \/ ItemUpdateGet(p)
    \/ ItemUpdateSave(p)
    \/ ItemDestroy(p)

MovieOps(p) ==
    \/ MovieCreateValidate(p)
    \/ MovieCreateInsert(p)
    \/ MovieUpdateGet(p)
    \/ MovieUpdateValidate(p)
    \/ MovieUpdateSave(p)
    \/ MovieDestroy(p)

ResolveOps(p) ==
    \/ ResolveLookup(p)
    \/ ResolveFetch(p)
    \/ ResolveCreate(p)

Next ==
    \E p \in Procs :
        PlaylistOps(p) \/ ItemOps(p) \/ MovieOps(p) \/ ResolveOps(p) \/ Respond(p)

Spec == Init /\ [][Next]_vars

NextMovies == \E p \in Procs : MovieOps(p) \/ ResolveOps(p) \/ Respond(p)

SpecMovies == Init /\ [][NextMovies]_vars

\* the playlist side, from a store that holds the movies and the playlists:
\* items are added, changed and removed, playlists are updated, playlists and
\* movies are deleted
InitPlaylists ==
    /\ movies = {[id |-> m, tmdb_id |-> NULL] : m \in MovieIds}
    /\ playlists = PlaylistIds
    /\ items = {}
    /\ nextMovieId = MaxMovies + 1
    /\ nextPlaylistId = MaxPlaylists + 1
    /\ nextItemId = 1
    /\ apiKey = TRUE
    /\ data = InceptionDoc
    /\ req = [p \in Procs |-> Idle]

NextPlaylists ==
    \E p \in Procs :
        \/ PlaylistDestroy(p)
        \/ PlaylistUpdateGet(p)
        \/ PlaylistUpdateSave(p)
        \/ AddMovieCheck(p)
        \/ AddMovieCreate(p)
        \/ RemoveMovieLookup(p)
        \/ RemoveMovieDelete(p)
        \/ UpdateItemStatusLookup(p)
        \/ UpdateItemStatusSave(p)
        \/ ItemOps(p)
        \/ MovieDestroy(p)
        \/ Respond(p)

SpecPlaylists == InitPlaylists /\ [][NextPlaylists]_vars

\* the sequences over S of length at most n
BoundedSeq(S, n) == UNION {[1..k -> S] : k \in 0..n}

\* the characters of a release date: digits, the separator, a blank, a sign,
\* an underscore and a letter
DateChars == {"2", "0", "-", " ", "+", "_", "x"}

\* the documents of the release date: the key absent, null, or a text
DateDocs ==
    {EmptyDict, [release_date |-> None]}
        \cup {[release_date |-> str(chars)] :
                chars \in BoundedSeq(DateChars, MaxDateLen) \cup {EXAMPLE_DATE}}

\* the site and the key of a video entry: null or a text
SiteInputs ==
    {None, str(YOUTUBE), str(<<"Y", "o", "u", "T", "u", "b", "e">>),
     str(<<"V", "i", "m", "e", "o">>)}
KeyInputs == {None, str(<<>>), str(<<"a">>), str(<<"b">>)}

\* the entries of a video list: each of site and key present or absent
VideoEntries ==
    {EmptyDict}
        \cup {[site |-> site] : site \in SiteInputs}
        \cup {[key |-> key] : key \in KeyInputs}
        \cup {[site |-> site, key |-> key] : site \in SiteInputs, key \in KeyInputs}

\* the documents of the video list: no videos, videos without results, or
\* a list of entries
VideoDocs ==
    {EmptyDict, [videos |-> EmptyDict]}
        \cup {[videos |-> [results |-> videos]] :
                videos \in BoundedSeq(VideoEntries, MaxVideos)}

\* the resolution service alone, with the API key configured, over the
\* documents TMDB may answer with
InitResolve ==
    /\ movies = {}
    /\ playlists = {}
    /\ items = {}
    /\ nextMovieId = 1
    /\ nextPlaylistId = 1
    /\ nextItemId = 1
    /\ apiKey = TRUE
    /\ req = [p \in Procs |-> Idle]

InitReleaseYear == InitResolve /\ data \in DateDocs

InitTrailer == InitResolve /\ data \in VideoDocs

NextResolve == \E p \in Procs : ResolveOps(p) \/ MovieDestroy(p) \/ Respond(p)

SpecReleaseYear == InitReleaseYear /\ [][NextResolve]_vars

SpecTrailer == InitTrailer /\ [][NextResolve]_vars

\* ----------------------------------------------------------------- claims
\* C1: under every interleaving of the handlers there is at most one
\* PlaylistItem for a (playlist, movie) pair; two add_movie requests that
\* both passed the existence check do not leave two items behind.
C1_UniquePair ==
    \A i, j \in items : (i.playlist = j.playlist /\ i.movie = j.movie) => i = j

\* a process that passed the existence check is refused at its insert,
\* while the other's item of the pair is there
C1_Witness ==
    \E p, q \in Procs :
        /\ p # q
        /\ req[p] = Done("add_movie", HTTP_500_SERVER_ERROR, "IntegrityError")
        /\ req[q] = Done("add_movie", HTTP_201_CREATED, "")
        /\ Cardinality(items) = 1
        /\ playlists # {} /\ Cardinality(movies) = MaxMovies

\* C2: a resolution of an id with no local Movie and a successful response
\* makes one fetch, creates one Movie and returns created = True; the next
\* resolution of the id makes no fetch, creates nothing and returns the same
\* Movie with created = False.  Whenever a Movie with the id exists locally,
\* the call makes no fetch.
C2_ResolveTwice ==
    [][\A p \in Procs :
        /\ (Begin(p) /\ req'[p].op = "resolve") =>
              /\ movies' = movies
              /\ req'[p].fetches = 0
              /\ IF \E m \in movies : m.tmdb_id = req'[p].tm
                 THEN /\ req'[p].pc = "done" /\ req'[p].detail = "returned"
                      /\ ~req'[p].created
                      /\ [id |-> req'[p].mv, tmdb_id |-> req'[p].tm] \in movies
                 ELSE req'[p].pc = "rs_fetch"
        /\ (req[p].pc = "rs_fetch" /\ req'[p].pc = "rs_create") =>
              req'[p].fetches = 1 /\ movies' = movies
        /\ (req[p].pc = "rs_create" /\ req'[p].detail = "returned") =>
              LET row == [id |-> req'[p].mv, tmdb_id |-> req[p].tm]
              IN  /\ req'[p].created /\ req'[p].fetches = 1
                  /\ row \notin movies /\ movies' = movies \cup {row}
                  /\ Cardinality(movies') = Cardinality(movies) + 1
                  \* the second call, made right after the first
                  /\ \E tm \in TmdbIds, mv \in MovieIds :
                        /\ tm = req[p].tm /\ mv = row.id
                        /\ (resolve_lookup(tm))' =
                              [Done("resolve", NO_CODE, "returned")
                                  EXCEPT !.tm = tm, !.mv = mv]
      ]_vars

\* a resolution answered from the local Movie another resolution created
C2_Witness ==
    \E p \in Procs :
        /\ req[p].op = "resolve" /\ req[p].pc = "done" /\ req[p].detail = "returned"
        /\ ~req[p].created /\ req[p].fetches = 0
        /\ [id |-> req[p].mv, tmdb_id |-> req[p].tm] \in movies
        /\ \E q \in Procs :
              /\ req[q].op = "resolve" /\ req[q].created /\ req[q].fetches = 1
              /\ req[q].mv = req[p].mv /\ req[q].tm = req[p].tm

\* C3: two concurrent resolutions of one id can both miss and both attempt
\* the insert; the second insert fails with a uniqueness violation, and at most
\* one Movie carries a given non-null tmdb_id.
C3_TmdbIdUnique ==
    [][/\ \A m, n \in movies' : (m.tmdb_id = n.tmdb_id /\ m.tmdb_id # NULL) => m = n
       /\ \A p \in Procs :
            (req[p].pc = "rs_create" /\ req'[p] # req[p]
                /\ \E m \in movies : m.tmdb_id = req[p].tm) =>
                    req'[p].detail = "IntegrityError" /\ movies' = movies
      ]_vars

\* both resolutions missed; one created the Movie, the other was refused
C3_Witness ==
    \E p, q \in Procs :
        /\ p # q
        /\ req[p].op = "resolve" /\ req[p].detail = "IntegrityError"
        /\ req[q].op = "resolve" /\ req[q].created /\ req[q].tm = req[p].tm
        /\ \E m \in movies : m.tmdb_id = req[p].tm

\* C5: when the lookup misses and the detail fetch fails (404 or another
\* non-success status), the failure propagates and no Movie is created.
C5_FetchFailure ==
    [][\A p \in Procs :
        /\ (req[p].pc = "rs_fetch" /\ req'[p] # req[p]) =>
              /\ movies' = movies
              /\ req'[p].pc \in {"rs_create", "done"}
              /\ req'[p].pc = "rs_create" <=> (apiKey /\ req'[p].code = HTTP_200_OK)
              /\ req'[p].pc = "done" =>
                    req'[p].detail =
                        IF ~apiKey THEN "ImproperlyConfigured"
                        ELSE IF req'[p].code = HTTP_404_NOT_FOUND THEN "TMDBError"
                        ELSE "HTTPError"
        /\ (req[p].op = "resolve" /\ req'[p] # req[p] /\ movies' # movies) =>
              req[p].pc = "rs_create" /\ req[p].code = HTTP_200_OK
      ]_vars

\* a resolution ended by the 404 of the detail fetch
C5_Witness ==
    \E p \in Procs :
        /\ req[p].op = "resolve" /\ req[p].pc = "done"
        /\ req[p].detail = "TMDBError" /\ req[p].code = HTTP_404_NOT_FOUND
        /\ req[p].fetches = 1
        /\ MoviesByTmdb(req[p].tm) = {}

\* the step is taken by process p, handling operation op
Acts(p, op) ==
    /\ req'[p] # req[p]
    /\ req[p].pc # "done"
    /\ IF req[p].pc = "idle" THEN req'[p].op = op ELSE req[p].op = op

\* C4: add_movie of a pair the playlist does not contain creates one item
\* with the requested status (to_watch when omitted) and answers 201; add_movie
\* of a pair the playlist contains answers 400 "Movie already in playlist" and
\* leaves the items as they are.
C4_AddMovie ==
    [][\A p \in Procs :
            \* whenever a request is taken: what the handler answers to the
            \* valid bodies that address an existing playlist and movie
            /\ (Begin(p) /\ req'[p].op = "add_movie") =>
                  /\ store' = store
                  /\ \A pl \in playlists, m \in MoviePks, st \in Status \cup {ABSENT} :
                        add_movie_check(pl, m, st) =
                            IF ItemsOfPair(pl, m) # {}
                            THEN Done("add_movie", HTTP_400_BAD_REQUEST,
                                      "Movie already in playlist")
                            ELSE At("add_movie", "am_create", pl, m,
                                    IF st = ABSENT THEN TO_WATCH ELSE st, NULL, NoObj)
            /\ (req[p].pc = "am_create" /\ req'[p] # req[p]
                    /\ req[p].pl \in playlists /\ req[p].mv \in MoviePks
                    /\ ItemsOfPair(req[p].pl, req[p].mv) = {}) =>
                  \E pl \in PlaylistIds :
                      LET row == [id |-> nextItemId, playlist |-> pl, movie |-> req[p].mv,
                                  status |-> req[p].st]
                      IN  /\ pl = req[p].pl
                          /\ req'[p] = Done("add_movie", HTTP_201_CREATED, "")
                          /\ row \notin items /\ items' = items \cup {row}
                          /\ (movie_count(pl))' = movie_count(pl) + 1
      ]_vars

\* the second add_movie of a pair was refused and the item count stays 1
C4_Witness ==
    \E p \in Procs :
        /\ req[p] = Done("add_movie", HTTP_400_BAD_REQUEST, "Movie already in playlist")
        /\ Cardinality(items) = 1
        /\ nextItemId = 2

\* C6: deleting a Playlist removes the items that reference it and leaves
\* the Movies and the items of other playlists; deleting a Movie removes the
\* items that reference it; every item references an existing Playlist and an
\* existing Movie.
C6_Cascade ==
    [][/\ \A i \in items' : i.playlist \in playlists' /\ i.movie \in MoviePks'
       /\ (playlists \ playlists' # {}) =>
            \E pl \in playlists :
                /\ playlists' = playlists \ {pl}
                /\ items' = {i \in items : i.playlist # pl}
                /\ movies' = movies
       /\ (MoviePks \ MoviePks' # {}) =>
            \E mv \in MoviePks :
                /\ movies' = {m \in movies : m.id # mv}
                /\ items' = {i \in items : i.movie # mv}
                /\ playlists' = playlists
      ]_vars

\* a playlist was deleted: its item is gone, the other playlist's item and
\* both movies are still there
C6_Witness ==
    \E p \in Procs :
        /\ req[p] = Done("playlist_destroy", HTTP_204_NO_CONTENT, "")
        /\ nextItemId = 3 /\ Cardinality(items) = 1
        /\ Cardinality(playlists) = 1 /\ Cardinality(movies) = 2
        /\ \A q \in Procs \ {p} : req[q] = Idle

\* C7: update_item_status of an existing item: an invalid or missing status
\* fails validation and leaves the status; a valid one is stored on that item
\* only, answers 200 and shows in watched_count.  Every item's status is one
\* of the three choices.
C7_UpdateStatus ==
    [][/\ \A i \in items' : i.status \in Status
       /\ \A p \in Procs :
            \* whenever a request is taken: what the handler answers for the
            \* items that exist
            /\ (Begin(p) /\ req'[p].op = "update_item_status") =>
                  /\ store' = store
                  /\ \A i \in items, st \in StatusInputs :
                        i.playlist \in playlists =>
                            update_item_status_lookup(i.playlist, i.movie, st) =
                                IF st \in {TO_WATCH, WATCHING, WATCHED}
                                THEN At("update_item_status", "us_save", NULL, NULL, "", NULL,
                                        [i EXCEPT !.status = st])
                                ELSE Done("update_item_status", HTTP_400_BAD_REQUEST,
                                          "ValidationError")
            /\ (req[p].pc = "us_save" /\ req'[p] # req[p]) =>
                  \E pl \in PlaylistIds :
                      LET row == req[p].obj
                          old == {i \in items : i.id = row.id}
                          was == Cardinality({i \in old : i.status = WATCHED})
                          now == IF row.status = WATCHED THEN 1 ELSE 0
                      IN  /\ pl = row.playlist
                          /\ (\E i \in old : i.playlist = pl /\ i.movie = row.movie) =>
                                req'[p].code = HTTP_200_OK
                          /\ req'[p].code = HTTP_200_OK =>
                                /\ row \in items'
                                /\ \A j \in items \cup items' :
                                      j.id # row.id => (j \in items /\ j \in items')
                                /\ (watched_count(pl))' = watched_count(pl) - was + now
                          /\ req'[p].code # HTTP_200_OK => items' = items
      ]_vars

\* an item was set to watched and counts; the other item kept its status
C7_Witness ==
    \E p \in Procs :
        /\ req[p] = Done("update_item_status", HTTP_200_OK, "")
        /\ \E i, j \in items :
              /\ i.status = WATCHED /\ watched_count(i.playlist) = 1
              /\ j.id # i.id /\ j.status = TO_WATCH

\* C8 as stated: add_movie and update_item_status answer an invalid body
\* with a 400 validation error whatever the storage contains.
C8_ValidationFirst ==
    /\ \A pl \in PlaylistIds, movie_id \in MovieIds \cup {INVALID_INT}, st \in StatusInputs :
          ~(movie_id # INVALID_INT /\ st \in Status \cup {ABSENT}) =>
              add_movie_check(pl, movie_id, st) =
                  Done("add_movie", HTTP_400_BAD_REQUEST, "ValidationError")
    /\ \A pl \in PlaylistIds, movie_id \in MovieIds, st \in StatusInputs :
          st \notin Status =>
              update_item_status_lookup(pl, movie_id, st) =
                  Done("update_item_status", HTTP_400_BAD_REQUEST, "ValidationError")

\* C8, amended: the addressed playlist (for update_item_status also the
\* addressed item) is looked up before the body is validated.  An invalid body
\* is answered 404 when that lookup fails and with a 400 validation error
\* otherwise (for add_movie also when the movie does not exist); either way
\* storage is left unchanged, and no invalid body reaches a write.
C8_ValidationAfterLookup ==
    [][\A p \in Procs :
            \* whenever a request is taken: what the handlers answer to the
            \* invalid bodies
            /\ (Begin(p) /\ req'[p].op = "add_movie") =>
                  /\ store' = store /\ seqs' = seqs
                  /\ \A pl \in PlaylistIds, movie_id \in MovieIds \cup {INVALID_INT},
                        st \in StatusInputs :
                        ~(movie_id # INVALID_INT /\ st \in Status \cup {ABSENT}) =>
                            add_movie_check(pl, movie_id, st) =
                                IF pl \in playlists
                                THEN Done("add_movie", HTTP_400_BAD_REQUEST, "ValidationError")
                                ELSE Done("add_movie", HTTP_404_NOT_FOUND, "Http404")
            /\ (Begin(p) /\ req'[p].op = "update_item_status") =>
                  /\ store' = store /\ seqs' = seqs
                  /\ \A pl \in PlaylistIds, movie_id \in MovieIds, st \in StatusInputs \ Status :
                        update_item_status_lookup(pl, movie_id, st) =
                            IF pl \in playlists
                                  /\ \E i \in items : i.playlist = pl /\ i.movie = movie_id
                            THEN Done("update_item_status", HTTP_400_BAD_REQUEST,
                                      "ValidationError")
                            ELSE Done("update_item_status", HTTP_404_NOT_FOUND, "Http404")
            /\ req'[p].pc = "am_create" => req'[p].st \in Status /\ req'[p].mv \in MovieIds
            /\ req'[p].pc = "us_save" => req'[p].obj.status \in Status
      ]_vars

\* an invalid body was answered 400 although no movie exists
C8_Witness ==
    \E p \in Procs :
        /\ req[p] = Done("add_movie", HTTP_400_BAD_REQUEST, "ValidationError")
        /\ playlists # {} /\ movies = {}

\* C9 as stated: an item comes into existence only through add_movie and
\* ceases to exist only through remove_movie or a cascade.
C9_OnlyAddAndRemove ==
    [][/\ (\E i \in items' : \A j \in items : j.id # i.id) =>
            \E p \in Procs : Acts(p, "add_movie")
       /\ (\E i \in items : \A j \in items' : j.id # i.id) =>
            \E p \in Procs :
                Acts(p, "remove_movie") \/ Acts(p, "playlist_destroy")
                    \/ Acts(p, "movie_destroy")
      ]_vars

\* C9, amended: an item comes into existence through add_movie, or is
\* inserted again under its old key by the save() of update_item_status or of
\* a direct playlist-item update whose row was deleted after the handler read
\* it; it ceases to exist through remove_movie, the direct playlist-item
\* DELETE, or a cascade.  The direct playlist-item POST never creates an item.
C9_CreateAndDestroy ==
    [][/\ \A i \in items' :
            (\A j \in items : j.id # i.id) =>
                \E p \in Procs :
                    \/ Acts(p, "add_movie") /\ i.id = nextItemId
                    \/ /\ Acts(p, "update_item_status") \/ Acts(p, "item_update")
                       /\ i = req[p].obj /\ i.id < nextItemId
       /\ (\E i \in items : \A j \in items' : j.id # i.id) =>
            \E p \in Procs :
                \/ Acts(p, "remove_movie") \/ Acts(p, "item_destroy")
                \/ Acts(p, "playlist_destroy") \/ Acts(p, "movie_destroy")
       /\ \A p \in Procs : Acts(p, "item_create") => store' = store /\ seqs' = seqs
      ]_vars

\* the only item was removed by the direct DELETE: no playlist and no movie
\* was deleted
C9_Witness ==
    \E p \in Procs :
        /\ req[p] = Done("item_destroy", HTTP_204_NO_CONTENT, "")
        /\ items = {} /\ nextItemId = 2
        /\ Cardinality(playlists) = MaxPlaylists /\ Cardinality(movies) = MaxMovies
        /\ \A q \in Procs \ {p} : req[q] = Idle

\* C10: get_progress of a playlist is (watched, total): total is the number
\* of its items (movie_count), watched the number of them with status watched
\* (watched_count), 0 <= watched <= total, and the items of other playlists do
\* not count.
C10_Progress ==
    \A pl \in PlaylistIds :
        LET watched == get_progress(pl)[1]
            total == get_progress(pl)[2]
            mine == {m \in MovieIds : \E i \in items : i.playlist = pl /\ i.movie = m}
            seen == {m \in MovieIds :
                        \E i \in items : i.playlist = pl /\ i.movie = m /\ i.status = WATCHED}
        IN  /\ total = movie_count(pl) /\ watched = watched_count(pl)
            /\ total = Cardinality(mine) /\ watched = Cardinality(seen)
            /\ 0 <= watched /\ watched <= total
            /\ total + Cardinality({i \in items : i.playlist # pl}) = Cardinality(items)

\* one playlist with a watched item, the other with an item not watched
C10_Witness ==
    \E a, b \in playlists :
        /\ a # b
        /\ get_progress(a) = <<1, 1>>
        /\ get_progress(b) = <<0, 1>>

\* C11: the Movie a resolution creates has, as release_year, the integer
\* value of the text before the first "-" of the document's release date
\* ("2010-07-15" gives 2010); when the date is absent, null, empty or that
\* text is no integer, release_year is unset.  The date raises no failure:
\* the insert is made whatever the date is, and the Movie is created
\* unless another Movie took the tmdb_id meanwhile.
C11_ReleaseYear ==
    [][\A p \in Procs :
        (req[p].pc = "rs_create" /\ req'[p] # req[p]) =>
            LET given == get(data, "release_date", None)
                text == IF given.type = "str" THEN given.chars ELSE <<>>
                taken == \E m \in movies : m.tmdb_id = req[p].tm
            IN  \E k \in 0..Len(text) :
                    /\ \A i \in 1..k : text[i] # "-"
                    /\ k < Len(text) => text[k + 1] = "-"
                    /\ LET segment == SubSeq(text, 1, k)
                           unset == text = <<>> \/ int(segment) = ValueError
                       IN  /\ req'[p].pc = "done"
                           /\ req'[p].detail = IF taken THEN "IntegrityError" ELSE "returned"
                           /\ ~taken =>
                                /\ req'[p].created
                                /\ movies' = movies \cup
                                        {[id |-> req'[p].mv, tmdb_id |-> req[p].tm]}
                                /\ movies' # movies
                                /\ req'[p].release_year =
                                        IF unset THEN None ELSE int(segment)
                                /\ text = EXAMPLE_DATE => req'[p].release_year = PyInt(2010)
                                /\ (text # <<>> /\ \A i \in 1..Len(text) : text[i] = "2") =>
                                        req'[p].release_year.type = "int"
                                /\ (text # <<>> /\ text[1] \in {"-", "x", "_"}) =>
                                        req'[p].release_year = None
      ]_vars

\* a Movie created with release_year unset from a date whose text before
\* the first "-" is no integer
C11_Witness ==
    \E p \in Procs :
        /\ data = [release_date |-> str(<<"x", "-", "2">>)]
        /\ req[p].op = "resolve" /\ req[p].pc = "done" /\ req[p].created
        /\ req[p].release_year = None
        /\ \E m \in movies : m.id = req[p].mv /\ m.tmdb_id = req[p].tm

\* the video list of the document, the site of its i-th entry being the
\* text s ignoring case, and the entry having a key that is a non-empty text
VideoList == get(get(data, "videos", EmptyDict), "results", <<>>)

SiteIs(i, s) ==
    /\ "site" \in DOMAIN VideoList[i]
    /\ VideoList[i].site.type = "str"
    /\ Len(VideoList[i].site.chars) = Len(s)
    /\ \A j \in 1..Len(s) :
          \/ VideoList[i].site.chars[j] = s[j]
          \/ \E k \in 1..Len(LOWERCASE) :
                LOWERCASE[k] = s[j] /\ UPPERCASE[k] = VideoList[i].site.chars[j]

HasKey(i) ==
    /\ "key" \in DOMAIN VideoList[i]
    /\ VideoList[i].key.type = "str"
    /\ VideoList[i].key.chars # <<>>

\* C12 as stated: the trailer identifier of the Movie a resolution creates
\* is the key of the first entry of the video list whose site is "youtube"
\* ignoring case, and it is unset exactly when no entry has such a site.
C12_FirstYoutubeEntry ==
    [][\A p \in Procs :
        (req[p].pc = "rs_create" /\ req'[p].detail = "returned") =>
            LET tubes == {i \in 1..Len(VideoList) : SiteIs(i, YOUTUBE)}
            IN  IF tubes = {} THEN req'[p].youtube_id = None
                ELSE LET first == CHOOSE i \in tubes : \A j \in tubes : i <= j
                     IN  /\ req'[p].youtube_id # None
                         /\ req'[p].youtube_id = get(VideoList[first], "key", None)
      ]_vars

\* C12, amended: the trailer identifier of the Movie a resolution creates is
\* the key of the first entry of the video list whose site is "youtube"
\* ignoring case and whose key is a non-empty text; it is unset exactly when
\* there is no such entry.  When an entry before that one (any entry, when
\* there is none) has a null site, the resolution fails with AttributeError
\* and creates no Movie.
C12_FirstYoutubeKey ==
    [][\A p \in Procs :
        (req[p].pc = "rs_create" /\ req'[p] # req[p]) =>
            LET trailers == {i \in 1..Len(VideoList) : SiteIs(i, YOUTUBE) /\ HasKey(i)}
                first == IF trailers = {} THEN Len(VideoList) + 1
                         ELSE CHOOSE i \in trailers : \A j \in trailers : i <= j
                nullSite == \E i \in 1..(first - 1) :
                                /\ "site" \in DOMAIN VideoList[i]
                                /\ VideoList[i].site = None
                taken == \E m \in movies : m.tmdb_id = req[p].tm
            IN  /\ req'[p].pc = "done"
                /\ req'[p].detail = IF nullSite THEN "AttributeError"
                                    ELSE IF taken THEN "IntegrityError"
                                    ELSE "returned"
                /\ req'[p].detail # "returned" => movies' = movies
                /\ req'[p].detail = "returned" =>
                      /\ req'[p].created
                      /\ movies' = movies \cup {[id |-> req'[p].mv, tmdb_id |-> req[p].tm]}
                      /\ movies' # movies
                      /\ req'[p].youtube_id =
                            IF trailers = {} THEN None ELSE VideoList[first].key
                      /\ req'[p].youtube_id = None <=> trailers = {}
      ]_vars

\* a Movie created with the key of the second entry: the first entry is a
\* youtube entry without a key
C12_Witness ==
    \E p \in Procs :
        /\ VideoList = <<[site |-> str(YOUTUBE)],
                         [site |-> str(<<"Y", "o", "u", "T", "u", "b", "e">>),
                          key |-> str(<<"b">>)]>>
        /\ req[p].op = "resolve" /\ req[p].pc = "done" /\ req[p].created
        /\ req[p].youtube_id = str(<<"b">>)
        /\ \E m \in movies : m.id = req[p].mv /\ m.tmdb_id = req[p].tm
====
